---- MODULE Spec2Model ----
(***************************************************************************)
(* Verification model of the ceph-csi volume-lifecycle core:               *)
(*   - CephFS clone orchestration (internal/cephfs/core/clone.go)          *)
(*   - RBD volume groups (internal/rbd/group/volume_group.go)              *)
(***************************************************************************)
EXTENDS Integers, Sequences, FiniteSets, TLC

(***************************************************************************)
(* Bounds                                                                  *)
(***************************************************************************)
\* volume sizes range over 1..MaxSize
MaxSize == 2

\* the caller invokes the clone operation at most MaxCalls times
MaxCalls == 3

Sizes == 1..MaxSize

\* number of RBD volumes that can be members of the volume group
NumVols == 2

\* AddVolume is not called on a group that holds MaxLen volumes in memory
MaxLen == 4

\* Destroy is called at most MaxDestroys times on a group object
MaxDestroys == 2

\* the callers issue at most MaxOps operations on the volume group
MaxOps == 5

\* number of reclaim-space requests that can be in flight at once
NumReqs == 2

\* number of volume IDs the reclaim-space requests name
NumLockIDs == 2

\* the clients issue at most MaxRequests reclaim-space requests
MaxRequests == 2

(***************************************************************************)
(* Errors.  Every error value is a record, so that values stay comparable; *)
(* msg/errno carry the backend failure text of the clone errors.           *)
(***************************************************************************)
ErrOf(k) == [kind |-> k, msg |-> "", errno |-> ""]

Nil == ErrOf("nil")

Unset == ErrOf("unset")

ErrWith(k, m, e) == [kind |-> k, msg |-> m, errno |-> e]

\* cerrors.IsCloneRetryError: the retryable class is CloneInProgress and
\* ClonePending.
IsCloneRetryError(e) == e.kind \in {"ErrCloneInProgress", "ErrClonePending"}

(***************************************************************************)
(* admin.CloneState is a string reported by the backend.                   *)
(***************************************************************************)
CloneComplete == "complete"

CloneInProgress == "in-progress"

ClonePending == "pending"

CloneFailed == "failed"

\* a state the backend reports that has no case in ToError
CloneCanceled == "canceled"

\* var CephFSCloneError = &cephFSCloneState{}: the zero value
CephFSCloneError == [state |-> "", errno |-> "", errorMsg |-> ""]

\* the failure record a backend clone status may carry (cs.GetFailure())
NoFailure == [errno |-> "", errStr |-> ""]

SomeFailure == [errno |-> "22", errStr |-> "EINVAL"]

\* func (cs *cephFSCloneState) ToError() error
ToError(c) ==
  CASE c.state = CloneComplete -> Nil
    [] c.state = CephFSCloneError.state ->
         ErrWith("ErrInvalidClone", c.errorMsg, c.errno)
    [] c.state = CloneInProgress -> ErrOf("ErrCloneInProgress")
    [] c.state = ClonePending -> ErrOf("ErrClonePending")
    [] c.state = CloneFailed -> ErrWith("ErrCloneFailed", c.errorMsg, c.errno)
    [] OTHER -> Nil

(***************************************************************************)
(* RBD volume group state                                                  *)
(***************************************************************************)
VolIDs == 1..NumVols

\* volume.GetName(): the image name of a volume
NameOf(v) == 100 + v

\* the ID of the RBD snapshot the group snapshot holds for an image
SnapIDOf(v) == 200 + v

\* a types.Volume: the resolver allocates one per member ID in
\* GetVolumeGroup, the caller of AddVolume brings its own
Handle(v, b) == [id |-> v, by |-> b]

Handles == {Handle(v, b) : v \in VolIDs, b \in {"resolver", "caller"}}

\* the zero value of a slot of a []types.Volume
NoVol == [id |-> 0, by |-> "none"]

\* the nil types.Snapshot
NilSnapshot == [src |-> NoVol, snapID |-> 0, idx |-> 0]

\* a Go slice: backing array (0: none) and length; the array holds cap slots
NilSlice == [arr |-> 0, len |-> 0]

Cap(h, sl) == IF sl.arr = 0 THEN 0 ELSE Len(h[sl.arr])

Elems(h, sl) == IF sl.arr = 0 THEN <<>> ELSE SubSeq(h[sl.arr], 1, sl.len)

\* capacity of a slice built by n appends to an empty slice (1, 2, 4, 8, ...)
RECURSIVE GrowCap(_)
GrowCap(n) ==
  IF n = 0 THEN 0
  ELSE IF n = 1 THEN 1
  ELSE 2 * GrowCap((n + 1) \div 2)

Pad(seq, c) == seq \o [i \in 1..(c - Len(seq)) |-> NoVol]

\* arrays no slice refers to are collected, slots no slice reaches are blank
Collect(h, vs, tf) ==
  [a \in 1..2 |->
     LET reach == IF vs.arr = a /\ tf.arr = a
                  THEN (IF vs.len > tf.len THEN vs.len ELSE tf.len)
                  ELSE IF vs.arr = a THEN vs.len
                  ELSE IF tf.arr = a THEN tf.len
                  ELSE 0
     IN IF a \notin {vs.arr, tf.arr} THEN <<>>
        ELSE [i \in 1..Len(h[a]) |-> IF i <= reach THEN h[a][i] ELSE NoVol]]

\* all orders in which the elements of a set can be met
Perms(S) ==
  {q \in [1..Cardinality(S) -> S] : \A i, j \in 1..Cardinality(S) :
                                       i # j => q[i] # q[j]}

SeqToSet(q) == {q[i] : i \in 1..Len(q)}

RECURSIVE FilterOut(_, _)
FilterOut(q, v) ==
  IF q = <<>> THEN <<>>
  ELSE IF Head(q).id = v THEN FilterOut(Tail(q), v)
  ELSE <<Head(q)>> \o FilterOut(Tail(q), v)

VARIABLES
  phase,          \* "none": no group object; "live"; "destroyed"
  heap,           \* backing arrays of the slices
  volumes,        \* vg.volumes
  volumesToFree,  \* vg.volumesToFree
  groupExists,    \* backend: the RBD group exists
  backendMembers, \* backend: IDs of the images in the RBD group
  journal,        \* journal: volume IDs mapped to the group
  groupSnap,      \* backend: the group snapshot `name`
  released,       \* number of Destroy calls per volume handle
  resolved,       \* the handles GetVolumeGroup resolved for this object
  destroyCalls,   \* number of Destroy calls on this object
  last,           \* the last operation and its result
  csOut,          \* what the last CreateSnapshots call did
  round,          \* a successful AddVolume(v) and the RemoveVolume(v) after it
  removed,        \* the volume the last call removed from a non-empty
                  \* membership with success (0: none)
  loadErr,        \* the error the last call returned, when it was Load
  idem,           \* the run of Create calls on an existing group, or of
                  \* Delete calls on an absent group, that ends with the
                  \* last call; no other call of the run failed
  ops             \* number of operations issued so far

groupVars ==
  <<phase, heap, volumes, volumesToFree, groupExists, backendMembers,
    journal, groupSnap, released, resolved, destroyCalls, last, csOut,
    round, removed, loadErr, idem, ops>>

NoSnap == [exists |-> FALSE, info |-> <<>>]

NoCall == [op |-> "none", res |-> "none"]

NoCS ==
  [stage |-> "none", outcome |-> "none", info |-> <<>>, snapshots |-> <<>>,
   made |-> 0, destroyed |-> {}, removeTried |-> 0, removeOk |-> FALSE]

NoRound == [stage |-> "none", v |-> 0, before |-> {}]

\* the IDs of the volumes in vg.volumes
MemberIDs == {Elems(heap, volumes)[i].id : i \in 1..volumes.len}

NoIdem == [op |-> "none", n |-> 0, pre |-> <<>>]

GroupIdle ==
  /\ phase = "none"
  /\ heap = <<(<<>>), (<<>>)>>
  /\ volumes = NilSlice
  /\ volumesToFree = NilSlice
  /\ released = [h \in Handles |-> 0]
  /\ resolved = {}
  /\ destroyCalls = 0
  /\ last = NoCall
  /\ csOut = NoCS
  /\ round = NoRound
  /\ removed = 0
  /\ loadErr = <<>>
  /\ idem = NoIdem
  /\ ops = 0

(***************************************************************************)
(* Reclaim-space servers: internal/csi-addons/rbd/reclaimspace.go           *)
(***************************************************************************)
Reqs == 1..NumReqs

\* req.GetVolumeId(): 0 is the empty string
ReqIDs == 0..NumLockIDs

\* An error is the chain of its wrapped errors, outermost first; nil is the
\* empty chain.  fmt.Errorf("...: %w", err) puts a link in front.
NilErr == <<>>

Wrap(text, e) == <<text>> \o e

\* errors.Is(err, target): err or an error it wraps is the target
ErrorsIs(e, target) == \E i \in 1..Len(e) : SubSeq(e, i, Len(e)) = target

ErrImageInUse == <<"ErrImageInUse">>

VARIABLES
  requests,     \* the requests in flight, per request slot
  volumeLocks,  \* util.VolumeLocks: the volume IDs that are locked
  issued        \* number of requests issued so far

reclaimVars == <<requests, volumeLocks, issued>>

\* a request slot before its (next) request
NoRequest ==
  [server |-> "none", id |-> 0, pc |-> "idle", acquired |-> "untried",
   held |-> FALSE, released |-> 0, resp |-> "none", serr |-> <<"unset">>,
   inUse |-> "unknown", did |-> {}]

ReclaimIdle ==
  /\ requests = [r \in Reqs |-> NoRequest]
  /\ volumeLocks = {}
  /\ issued = 0

(***************************************************************************)
(* Clone orchestration state                                               *)
(***************************************************************************)
VARIABLES
  kind,        \* which operation the caller (re-)invokes: "Subvolume" | "Snapshot"
  reqSize,     \* s.Size, the size requested by the caller
  parentSize,  \* size of the parent subvolume
  pc,          \* position of the invocation
  err,         \* the local variable err
  ret,         \* the value evaluated by the return statement
  cs,          \* cloneState returned by GetCloneState
  verdict,     \* result of cloneState.ToError() in this invocation
  deferred,    \* the compensating defer has been registered
  cloneCount,  \* backend: number of target volumes named s.VolID
  cloneState,  \* backend: clone state of the target volume
  failure,     \* backend: failure record of the clone status
  volSize,     \* backend: size of the target volume
  snaps,       \* backend: number of snapshots per snapshot name
  trace,       \* backend steps issued by this invocation, in order
  purgeRes,    \* what the compensating PurgeVolume returned
  snapDelRes,  \* what the compensating DeleteSnapshot returned
  stepErr,     \* what the last step of the protocol proper returned
  calls        \* number of invocations so far

cloneVars ==
  <<kind, reqSize, parentSize, pc, err, ret, cs, verdict, deferred,
    cloneCount, cloneState, failure, volSize, snaps, trace, purgeRes,
    snapDelRes, stepErr, calls>>


\* the state of the clone operations before the first invocation
CloneIdle ==
  /\ kind = "Subvolume"
  /\ reqSize = 1
  /\ parentSize = 1
  /\ pc = "idle"
  /\ err = ErrOf("nil")
  /\ ret = ErrOf("nil")
  /\ cs = CephFSCloneError
  /\ verdict = ErrOf("unset")
  /\ deferred = FALSE
  /\ cloneCount = 0
  /\ cloneState = "none"
  /\ failure = NoFailure
  /\ volSize = 0
  /\ snaps = [n \in {"VolID", "SnapshotID"} |-> 0]
  /\ trace = <<>>
  /\ purgeRes = ErrOf("unset")
  /\ snapDelRes = ErrOf("unset")
  /\ stepErr = ErrOf("unset")
  /\ calls = 0

vars == <<cloneVars, groupVars, reclaimVars>>

\* snapshot names: the intermediate one is named after the target's VolID,
\* the source one is snap.SnapshotID of CreateCloneFromSnapshot
SnapNames == {"VolID", "SnapshotID"}

\* snapClient := NewSnapshot(s.conn, snapshotID, ...)
SnapClientID == IF kind = "Subvolume" THEN "VolID" ELSE "SnapshotID"

RECURSIVE Count(_, _)
Count(s, x) ==
  IF s = <<>> THEN 0
  ELSE (IF Head(s) = x THEN 1 ELSE 0) + Count(Tail(s), x)

(***************************************************************************)
(* Backend primitives of the CephFS volume and snapshot clients.           *)
(***************************************************************************)
\* snapshot create is idempotent when the snapshot already exists
BackendCreateSnapshot(sn, id) ==
  [sn EXCEPT ![id] = IF @ > 0 THEN @ ELSE 1]

BackendDeleteSnapshot(sn, id) == [sn EXCEPT ![id] = 0]

Init ==
  /\ kind \in {"Subvolume", "Snapshot"}
  /\ reqSize \in Sizes
  /\ parentSize \in Sizes
  /\ pc = "idle"
  /\ err = Nil
  /\ ret = Nil
  /\ cs = CephFSCloneError
  /\ verdict = Unset
  /\ deferred = FALSE
  /\ cloneCount = 0
  /\ cloneState = "none"
  /\ failure = NoFailure
  /\ volSize = 0
  /\ snaps = [n \in SnapNames |->
                IF n = "SnapshotID" /\ kind = "Snapshot" THEN 1 ELSE 0]
  /\ trace = <<>>
  /\ purgeRes = Unset
  /\ snapDelRes = Unset
  /\ stepErr = Unset
  /\ calls = 0
  /\ ReclaimIdle
  /\ GroupIdle
  /\ groupExists = FALSE
  /\ backendMembers = {}
  /\ journal = {}
  /\ groupSnap = NoSnap

inputs == <<kind, reqSize, parentSize>>

backend == <<cloneCount, cloneState, failure, volSize, snaps>>

\* the caller (re-)invokes the operation with identical inputs
Invoke ==
  /\ UNCHANGED <<groupVars, reclaimVars>>
  /\ pc \in {"idle", "done"}
  /\ calls < MaxCalls
  /\ calls' = calls + 1
  /\ stepErr' = Unset
  /\ pc' = IF kind = "Subvolume" THEN "CreateSnapshot" ELSE "CloneSnapshot"
  /\ err' = Nil
  /\ ret' = Nil
  /\ cs' = CephFSCloneError
  /\ verdict' = Unset
  /\ deferred' = FALSE
  /\ trace' = <<>>
  /\ purgeRes' = Unset
  /\ snapDelRes' = Unset
  /\ UNCHANGED <<inputs, backend>>

ResultNamed(evaluated, local) == local

\* the functions declare an unnamed result (`) error {`): what the deferred
\* function assigns to err does not reach the caller
Result(evaluated, local) == evaluated

\* `return err`: the result is evaluated, then the deferred calls run
ReturnErr(e) ==
  /\ ret' = e
  /\ pc' = IF deferred THEN "defer" ELSE "done"

\* err := snapClient.CreateSnapshot(ctx), CreateCloneFromSubvolume only
CreateSnapshotStep ==
  /\ UNCHANGED <<groupVars, reclaimVars>>
  /\ pc = "CreateSnapshot"
  /\ trace' = Append(trace, "CreateSnapshot")
  /\ \/ /\ snaps' = BackendCreateSnapshot(snaps, SnapClientID)
        /\ err' = Nil
        /\ deferred' = TRUE
        /\ pc' = "CloneSnapshot"
        /\ UNCHANGED ret
     \/ /\ err' = ErrOf("ErrCreateSnapshot")
        /\ UNCHANGED <<snaps, deferred>>
        /\ ReturnErr(err')
  /\ stepErr' = err'
  /\ UNCHANGED calls
  /\ UNCHANGED <<inputs, cs, verdict, cloneCount, cloneState, failure,
                 volSize, purgeRes, snapDelRes>>

\* the backend starts the clone of a snapshot into the target volume; the
\* clone inherits the parent's size; an existing target is left as it is
CloneStarted ==
  IF cloneCount > 0
  THEN UNCHANGED <<cloneCount, cloneState, failure, volSize>>
  ELSE /\ cloneCount' = 1
       /\ cloneState' = ClonePending
       /\ failure' = NoFailure
       /\ volSize' = parentSize

\* err = snapClient.CloneSnapshot(ctx, s.SubVolume)
CloneSnapshotStep ==
  /\ UNCHANGED <<groupVars, reclaimVars>>
  /\ pc = "CloneSnapshot"
  /\ trace' = Append(trace, "CloneSnapshot")
  /\ \/ /\ snaps[SnapClientID] > 0
        /\ CloneStarted
        /\ err' = Nil
        /\ deferred' = TRUE
        /\ pc' = "GetCloneState"
        /\ UNCHANGED ret
     \/ \* the backend call fails, with the target possibly partially
        \* materialized
        /\ \/ UNCHANGED <<cloneCount, cloneState, failure, volSize>>
           \/ snaps[SnapClientID] > 0 /\ cloneCount = 0 /\ CloneStarted
        /\ err' = ErrOf("ErrCloneSnapshot")
        /\ UNCHANGED deferred
        /\ ReturnErr(err')
  /\ stepErr' = err'
  /\ UNCHANGED calls
  /\ UNCHANGED <<inputs, cs, verdict, snaps, purgeRes, snapDelRes>>

\* cloneState, err = s.GetCloneState(ctx)
GetCloneStateStep ==
  /\ UNCHANGED <<groupVars, reclaimVars>>
  /\ pc = "GetCloneState"
  /\ trace' = Append(trace, "GetCloneState")
  /\ \/ \* s.conn.GetFSAdmin() or fsa.CloneStatus() fails
        /\ \E k \in {"ErrGetFSAdmin", "ErrCloneStatus"} : err' = ErrOf(k)
        /\ cs' = CephFSCloneError
        /\ ReturnErr(err')
     \/ /\ cloneCount > 0
        /\ cs' = [state |-> cloneState,
                  errno |-> failure.errno,
                  errorMsg |-> failure.errStr]
        /\ err' = Nil
        /\ pc' = "ToError"
        /\ UNCHANGED ret
  /\ stepErr' = err'
  /\ UNCHANGED calls
  /\ UNCHANGED <<inputs, verdict, deferred, backend, purgeRes, snapDelRes>>

\* err = cloneState.ToError()
ToErrorStep ==
  /\ UNCHANGED <<groupVars, reclaimVars>>
  /\ pc = "ToError"
  /\ verdict' = ToError(cs)
  /\ err' = verdict'
  /\ IF err' # Nil
     THEN ReturnErr(err')
     ELSE pc' = "ExpandVolume" /\ UNCHANGED ret
  /\ stepErr' = err'
  /\ UNCHANGED calls
  /\ UNCHANGED <<inputs, cs, deferred, backend, trace, purgeRes, snapDelRes>>

\* the size handed to the resize
ExpandSizeParent == parentSize

ExpandSize == reqSize

\* err = s.ExpandVolume(ctx, s.Size)
ExpandVolumeStep ==
  /\ UNCHANGED <<groupVars, reclaimVars>>
  /\ pc = "ExpandVolume"
  /\ trace' = Append(trace, "ExpandVolume")
  /\ \/ /\ cloneCount > 0
        /\ volSize' = ExpandSize
        /\ err' = Nil
        /\ IF kind = "Subvolume"
           THEN pc' = "DeleteSnapshot" /\ UNCHANGED ret
           ELSE ReturnErr(Nil)
     \/ /\ err' = ErrOf("ErrExpandVolume")
        /\ UNCHANGED volSize
        /\ ReturnErr(err')
  /\ stepErr' = err'
  /\ UNCHANGED calls
  /\ UNCHANGED <<inputs, cs, verdict, deferred, cloneCount, cloneState,
                 failure, snaps, purgeRes, snapDelRes>>

\* if err = snapClient.DeleteSnapshot(ctx); err != nil { return err }
\* return nil
DeleteSnapshotStep ==
  /\ UNCHANGED <<groupVars, reclaimVars>>
  /\ pc = "DeleteSnapshot"
  /\ trace' = Append(trace, "DeleteSnapshot")
  /\ \/ /\ snaps' = BackendDeleteSnapshot(snaps, SnapClientID)
        /\ err' = Nil
     \/ \* deleting a snapshot that exists fails
        /\ snaps[SnapClientID] > 0
        /\ err' = ErrOf("ErrDeleteSnapshot")
        /\ UNCHANGED snaps
  /\ ReturnErr(err')
  /\ stepErr' = err'
  /\ UNCHANGED calls
  /\ UNCHANGED <<inputs, cs, verdict, deferred, cloneCount, cloneState,
                 failure, volSize, purgeRes, snapDelRes>>

DeferGuardAnyError == err # Nil

DeferGuardRetryOnly == err # Nil /\ IsCloneRetryError(err)

\* if err != nil && !cerrors.IsCloneRetryError(err)
DeferGuard == err # Nil /\ ~IsCloneRetryError(err)

\* the deferred function starts
DeferStep ==
  /\ UNCHANGED <<groupVars, reclaimVars>>
  /\ pc = "defer"
  /\ pc' = IF DeferGuard THEN "PurgeVolume" ELSE "done"
  /\ ret' = IF DeferGuard THEN ret ELSE Result(ret, err)
  /\ UNCHANGED <<stepErr, calls>>
  /\ UNCHANGED <<inputs, err, cs, verdict, deferred, backend, trace,
                 purgeRes, snapDelRes>>

SnapshotDeletedAlways == TRUE

\* the deferred function of CreateCloneFromSubvolume goes on with
\* snapClient.DeleteSnapshot(ctx), that of CreateCloneFromSnapshot ends
SnapshotDeleted == kind = "Subvolume"

\* Subvolume: if err = s.PurgeVolume(ctx, true); err != nil { log }
\* Snapshot:  if dErr := s.PurgeVolume(ctx, true); dErr != nil { log }
PurgeVolumeStep ==
  /\ UNCHANGED <<groupVars, reclaimVars>>
  /\ pc = "PurgeVolume"
  /\ trace' = Append(trace, "PurgeVolume")
  /\ \/ /\ cloneCount' = 0
        /\ cloneState' = "none"
        /\ failure' = NoFailure
        /\ volSize' = 0
        /\ purgeRes' = Nil
     \/ \* purging a volume that exists fails
        /\ cloneCount > 0
        /\ purgeRes' = ErrOf("ErrPurgeVolume")
        /\ UNCHANGED <<cloneCount, cloneState, failure, volSize>>
  /\ err' = IF kind = "Subvolume" THEN purgeRes' ELSE err
  /\ pc' = IF SnapshotDeleted THEN "CompDeleteSnapshot" ELSE "done"
  /\ ret' = IF SnapshotDeleted THEN ret ELSE Result(ret, err')
  /\ UNCHANGED <<stepErr, calls>>
  /\ UNCHANGED <<inputs, cs, verdict, deferred, snaps, snapDelRes>>

\* if err = snapClient.DeleteSnapshot(ctx); err != nil { log }
CompDeleteSnapshotStep ==
  /\ UNCHANGED <<groupVars, reclaimVars>>
  /\ pc = "CompDeleteSnapshot"
  /\ trace' = Append(trace, "CompDeleteSnapshot")
  /\ \/ /\ snaps' = BackendDeleteSnapshot(snaps, SnapClientID)
        /\ snapDelRes' = Nil
     \/ /\ snaps[SnapClientID] > 0
        /\ snapDelRes' = ErrOf("ErrDeleteSnapshot")
        /\ UNCHANGED snaps
  /\ err' = snapDelRes'
  /\ pc' = "done"
  /\ ret' = Result(ret, err')
  /\ UNCHANGED <<stepErr, calls>>
  /\ UNCHANGED <<inputs, cs, verdict, deferred, cloneCount, cloneState,
                 failure, volSize, purgeRes>>

\* The caller cancels ctx while the invocation is in flight.  Neither
\* function reads ctx.Err() or ctx.Done(): the cancellation is only seen by
\* the calls ctx is handed to.
Cancel ==
  /\ UNCHANGED <<groupVars, reclaimVars>>
  /\ pc \notin {"idle", "done"}
  /\ Count(trace, "Cancel") = 0
  /\ trace' = Append(trace, "Cancel")
  /\ UNCHANGED <<inputs, pc, err, ret, cs, verdict, deferred, backend,
                 purgeRes, snapDelRes, stepErr, calls>>

\* the backend works on the clone asynchronously
BackendProgress ==
  /\ UNCHANGED <<groupVars, reclaimVars>>
  /\ cloneCount > 0
  /\ \/ /\ cloneState = ClonePending
        /\ cloneState' = CloneInProgress
        /\ UNCHANGED failure
     \/ /\ cloneState = CloneInProgress
        /\ cloneState' \in {CloneComplete, CloneCanceled}
        /\ UNCHANGED failure
     \/ /\ cloneState = CloneInProgress
        /\ cloneState' = CloneFailed
        /\ failure' \in {NoFailure, SomeFailure}
  /\ UNCHANGED <<inputs, pc, err, ret, cs, verdict, deferred, cloneCount,
                 volSize, snaps, trace, purgeRes, snapDelRes, stepErr,
                 calls>>

Next ==
  \/ Invoke
  \/ CreateSnapshotStep
  \/ CloneSnapshotStep
  \/ GetCloneStateStep
  \/ ToErrorStep
  \/ ExpandVolumeStep
  \/ DeleteSnapshotStep
  \/ DeferStep
  \/ PurgeVolumeStep
  \/ CompDeleteSnapshotStep
  \/ Cancel
  \/ BackendProgress

Spec == Init /\ [][Next]_vars

(***************************************************************************)
(* RBD volume group: internal/rbd/group/volume_group.go                     *)
(***************************************************************************)
\* a group that was built before: backend membership and journal agree
GroupInit ==
  /\ CloneIdle
  /\ ReclaimIdle
  /\ GroupIdle
  /\ groupExists \in BOOLEAN
  /\ backendMembers \in (IF groupExists THEN SUBSET VolIDs ELSE {{}})
  /\ journal = backendMembers
  /\ groupSnap = NoSnap

backendGroup == <<groupExists, backendMembers, journal, groupSnap>>

object == <<phase, heap, volumes, volumesToFree, resolved, destroyCalls>>

Release(rel, hs) == [h \in Handles |-> IF h \in hs THEN rel[h] + 1 ELSE rel[h]]

ErrRBDGroupNotFound == <<"ErrRBDGroupNotFound">>

\* the error of vg.getVolumeGroupAttributes for a group the backend lacks
AttributesOfAbsentGroup == Wrap("volume group not found", ErrRBDGroupNotFound)

IsGroupNotFoundNever(e) == FALSE

\* if errors.Is(err, ErrRBDGroupNotFound) { ... return vg, err }
IsGroupNotFound(e) == ErrorsIs(e, ErrRBDGroupNotFound)

LoadDeferSkips(got, toFree) == {}

\* The deferred function of GetVolumeGroup: it returns at once when
\* len(vg.volumesToFree) > 0 and calls Destroy on every entry of `volumes`
\* otherwise.
LoadDeferFrees(got, toFree) == IF Len(toFree) > 0 THEN {} ELSE SeqToSet(got)

\* func GetVolumeGroup(ctx, id, csiDriver, creds, volumeResolver)
GetVolumeGroup ==
  /\ UNCHANGED <<cloneVars, reclaimVars>>
  /\ ops < MaxOps
  /\ ops' = ops + 1
  /\ phase \in {"none", "destroyed"}
  /\ csOut' = NoCS
  /\ round' = NoRound
  /\ removed' = 0
  /\ idem' = NoIdem
  /\ destroyCalls' = 0
  /\ UNCHANGED backendGroup
  /\ \/ \* vg.initCommonVolumeGroup fails, or vg.getVolumeGroupAttributes
        \* fails with an error that is not ErrRBDGroupNotFound
        /\ \E e \in {Wrap("failed to initialize volume group",
                          <<"initCommonVolumeGroup">>),
                     Wrap("failed to get volume attributes",
                          <<"getVolumeGroupAttributes">>)} : loadErr' = e
        /\ phase' = "none"
        /\ heap' = <<(<<>>), (<<>>)>>
        /\ volumes' = NilSlice
        /\ volumesToFree' = NilSlice
        /\ released' = [h \in Handles |-> 0]
        /\ resolved' = {}
        /\ last' = [op |-> "GetVolumeGroup", res |-> "error"]
     \/ \* vg.getVolumeGroupAttributes finds no group
        /\ ~groupExists
        /\ heap' = <<(<<>>), (<<>>)>>
        /\ volumes' = NilSlice
        /\ volumesToFree' = NilSlice
        /\ released' = [h \in Handles |-> 0]
        /\ resolved' = {}
        /\ IF IsGroupNotFound(AttributesOfAbsentGroup)
           THEN \* return vg, err
                /\ phase' = "live"
                /\ loadErr' = AttributesOfAbsentGroup
                /\ last' = [op |-> "GetVolumeGroup", res |-> "notfound"]
           ELSE \* return nil, fmt.Errorf("...: %w", vg, err)
                /\ phase' = "none"
                /\ loadErr' = Wrap("failed to get volume attributes",
                                   AttributesOfAbsentGroup)
                /\ last' = [op |-> "GetVolumeGroup", res |-> "error"]
     \/ \* for volID := range attrs.VolumeMap: the map is met in any order
        /\ groupExists
        /\ \E order \in Perms(journal) :
             \E failAt \in 0..Len(order) :
               LET got == [i \in 1..(IF failAt = 0 THEN Len(order)
                                     ELSE failAt - 1) |->
                             Handle(order[i], "resolver")]
               IN IF failAt # 0
                  THEN \* GetVolumeByID fails: the defer frees `volumes`,
                       \* len(vg.volumesToFree) being 0
                       /\ phase' = "none"
                       /\ heap' = <<(<<>>), (<<>>)>>
                       /\ volumes' = NilSlice
                       /\ volumesToFree' = NilSlice
                       /\ resolved' = SeqToSet(got)
                       /\ released' = Release([h \in Handles |-> 0],
                                               LoadDeferFrees(got, <<>>))
                       /\ last' = [op |-> "GetVolumeGroup", res |-> "error"]
                       /\ loadErr' =
                            Wrap("failed to get attributes for volume group",
                                 <<"GetVolumeByID">>)
                  ELSE \* vg.volumes = volumes; vg.volumesToFree = volumes;
                       \* the defer frees `volumes` when
                       \* len(vg.volumesToFree) is 0, that is, nothing
                       /\ phase' = "live"
                       /\ heap' = <<Pad(got, GrowCap(Len(got))), (<<>>)>>
                       /\ volumes' =
                            IF Len(got) = 0 THEN NilSlice
                            ELSE [arr |-> 1, len |-> Len(got)]
                       /\ volumesToFree' = volumes'
                       /\ resolved' = SeqToSet(got)
                       /\ released' = Release([h \in Handles |-> 0],
                                               LoadDeferFrees(got, got))
                       /\ last' = [op |-> "GetVolumeGroup", res |-> "ok"]
                       /\ loadErr' = NilErr

DestroyFreesVolumes == Elems(heap, volumes)

\* the volumes Destroy frees: for _, volume := range vg.volumesToFree
DestroyFrees == Elems(heap, volumesToFree)

\* vg.volumesToFree = make([]types.Volume, 0)
DestroyResets == NilSlice

\* func (vg *volumeGroup) Destroy(ctx context.Context)
Destroy ==
  /\ UNCHANGED <<cloneVars, reclaimVars>>
  /\ ops < MaxOps
  /\ ops' = ops + 1
  /\ phase \in {"live", "destroyed"}
  /\ destroyCalls < MaxDestroys
  /\ destroyCalls' = destroyCalls + 1
  /\ phase' = "destroyed"
  /\ IF volumesToFree.len > 0
     THEN /\ released' = Release(released, SeqToSet(DestroyFrees))
          /\ volumesToFree' = DestroyResets
     ELSE UNCHANGED <<released, volumesToFree>>
  /\ heap' = Collect(heap, volumes, volumesToFree')
  /\ last' = [op |-> "Destroy", res |-> "ok"]
  /\ csOut' = NoCS
  /\ round' = NoRound
  /\ removed' = 0
  /\ loadErr' = NilErr
  /\ idem' = NoIdem
  /\ UNCHANGED <<volumes, resolved, backendGroup>>

\* the backend group, the journal mapping and the in-memory membership
GroupState == <<groupExists, backendMembers, journal, groupSnap, MemberIDs>>

\* what librbd.GroupCreate answers when nothing else goes wrong
GroupCreateAnswer == IF groupExists THEN "ErrExist" ELSE "nil"

\* what librbd.GroupRemove answers when nothing else goes wrong
GroupRemoveAnswer == IF groupExists THEN "nil" ELSE "ErrNotFound"

CreateToleratesNothing(e) == FALSE

\* if !errors.Is(err, librbd.ErrExist) { return ... }
CreateTolerates(e) == e = "ErrExist"

\* if err != nil && !errors.Is(err, rados.ErrNotFound) { return ... }
DeleteTolerates(e) == e = "ErrNotFound"

\* the run of calls of `op` that the current call extends or starts
Run(op) ==
  IF idem.op = op THEN [idem EXCEPT !.n = @ + 1]
  ELSE [op |-> op, n |-> 1, pre |-> GroupState]

\* func (vg *volumeGroup) Create(ctx context.Context) error
Create ==
  /\ UNCHANGED <<cloneVars, reclaimVars>>
  /\ ops < MaxOps
  /\ ops' = ops + 1
  /\ phase = "live"
  /\ csOut' = NoCS
  /\ round' = NoRound
  /\ removed' = 0
  /\ loadErr' = NilErr
  /\ UNCHANGED <<object, released, backendMembers, journal, groupSnap>>
  /\ \/ \* vg.GetName, vg.GetIOContext or librbd.GroupCreate (with an error
        \* other than ErrExist) fails
        /\ UNCHANGED groupExists
        /\ last' = [op |-> "Create", res |-> "error"]
        /\ idem' = NoIdem
     \/ /\ IF GroupCreateAnswer = "nil" \/ CreateTolerates(GroupCreateAnswer)
           THEN /\ groupExists' = TRUE
                /\ last' = [op |-> "Create", res |-> "ok"]
           ELSE /\ UNCHANGED groupExists
                /\ last' = [op |-> "Create", res |-> "error"]
        /\ idem' = IF groupExists THEN Run("Create") ELSE NoIdem

\* func (vg *volumeGroup) Delete(ctx context.Context) error
Delete ==
  /\ UNCHANGED <<cloneVars, reclaimVars>>
  /\ ops < MaxOps
  /\ ops' = ops + 1
  /\ phase = "live"
  /\ csOut' = NoCS
  /\ round' = NoRound
  /\ removed' = 0
  /\ loadErr' = NilErr
  /\ UNCHANGED <<object, released>>
  /\ \/ \* vg.GetName, vg.GetIOContext or librbd.GroupRemove (with an error
        \* other than ErrNotFound) fails
        /\ UNCHANGED backendGroup
        /\ last' = [op |-> "Delete", res |-> "error"]
        /\ idem' = NoIdem
     \/ IF GroupRemoveAnswer = "nil" \/ DeleteTolerates(GroupRemoveAnswer)
        THEN /\ groupExists' = FALSE
             /\ backendMembers' = {}
             /\ groupSnap' = NoSnap
             /\ \/ \* return vg.commonVolumeGroup.Delete(ctx)
                   /\ journal' = {}
                   /\ last' = [op |-> "Delete", res |-> "ok"]
                   /\ idem' = IF groupExists THEN NoIdem ELSE Run("Delete")
                \/ \* vg.commonVolumeGroup.Delete fails
                   /\ UNCHANGED journal
                   /\ last' = [op |-> "Delete", res |-> "error"]
                   /\ idem' = NoIdem
        ELSE /\ UNCHANGED backendGroup
             /\ last' = [op |-> "Delete", res |-> "error"]
             /\ idem' = IF groupExists THEN NoIdem ELSE Run("Delete")

\* vg.volumes = append(vg.volumes, vol)
AppendVolume(vol) ==
  IF volumes.arr # 0 /\ volumes.len < Cap(heap, volumes)
  THEN /\ volumes' = [volumes EXCEPT !.len = @ + 1]
       /\ heap' = [heap EXCEPT ![volumes.arr][volumes.len + 1] = vol]
  ELSE LET c == Cap(heap, volumes)
           grown == Pad(Append(Elems(heap, volumes), vol),
                        IF c = 0 THEN 1 ELSE 2 * c)
       IN /\ volumes' = [arr |-> 2, len |-> volumes.len + 1]
          /\ heap' = Collect([heap EXCEPT ![2] = grown], volumes',
                             volumesToFree)

\* func (vg *volumeGroup) AddVolume(ctx context.Context, vol types.Volume) error
AddVolume(v) ==
  /\ UNCHANGED <<cloneVars, reclaimVars>>
  /\ ops < MaxOps
  /\ ops' = ops + 1
  /\ phase = "live"
  /\ volumes.len < MaxLen
  /\ csOut' = NoCS
  /\ UNCHANGED <<phase, volumesToFree, resolved, destroyCalls, released,
                 groupExists, groupSnap>>
  /\ \/ \* vol.AddToGroup fails
        /\ UNCHANGED <<heap, volumes, backendMembers, journal>>
        /\ last' = [op |-> "AddVolume", res |-> "error"]
     \/ /\ groupExists
        /\ backendMembers' = backendMembers \cup {v}
        /\ AppendVolume(Handle(v, "caller"))
        /\ \/ \* vol.GetID, vg.GetPool, vg.GetID, DecomposeCSIID, getJournal
              \* or AddVolumesMapping fails
              /\ UNCHANGED journal
              /\ last' = [op |-> "AddVolume", res |-> "error"]
           \/ /\ journal' = journal \cup {v}
              /\ last' = [op |-> "AddVolume", res |-> "ok"]
  /\ round' = IF last'.res = "ok" /\ v \notin MemberIDs
              THEN [stage |-> "added", v |-> v, before |-> MemberIDs]
              ELSE NoRound
  /\ removed' = 0
  /\ loadErr' = NilErr
  /\ idem' = NoIdem

\* func (vg *volumeGroup) RemoveVolume(ctx context.Context, vol types.Volume) error
RemoveVolume(v) ==
  /\ UNCHANGED <<cloneVars, reclaimVars>>
  /\ ops < MaxOps
  /\ ops' = ops + 1
  /\ phase = "live"
  /\ csOut' = NoCS
  /\ UNCHANGED <<phase, volumesToFree, resolved, destroyCalls, released,
                 groupExists, groupSnap>>
  /\ IF volumes.len = 0
     THEN \* volume was already removed from the group
          /\ UNCHANGED <<heap, volumes, backendMembers, journal>>
          /\ last' = [op |-> "RemoveVolume", res |-> "ok"]
     ELSE \/ \* vol.RemoveFromGroup fails with librbd.ErrNotExist
             /\ v \notin backendMembers
             /\ UNCHANGED <<heap, volumes, backendMembers, journal>>
             /\ last' = [op |-> "RemoveVolume", res |-> "ok"]
          \/ \* vol.RemoveFromGroup fails with another error
             /\ UNCHANGED <<heap, volumes, backendMembers, journal>>
             /\ last' = [op |-> "RemoveVolume", res |-> "error"]
          \/ /\ v \in backendMembers
             /\ backendMembers' = backendMembers \ {v}
             /\ \/ \* vol.GetID or a v.GetID of the loop fails
                   /\ UNCHANGED <<heap, volumes, journal>>
                   /\ last' = [op |-> "RemoveVolume", res |-> "error"]
                \/ LET kept == FilterOut(Elems(heap, volumes), v)
                   IN /\ volumes' = IF kept = <<>> THEN NilSlice
                                     ELSE [arr |-> 2, len |-> Len(kept)]
                      /\ heap' = Collect(
                           [heap EXCEPT ![2] = Pad(kept, GrowCap(Len(kept)))],
                           volumes', volumesToFree)
                      /\ \/ \* vg.GetPool, vg.GetID, DecomposeCSIID,
                            \* getJournal or RemoveVolumesMapping fails
                            /\ UNCHANGED journal
                            /\ last' = [op |-> "RemoveVolume", res |-> "error"]
                         \/ /\ journal' = journal \ {v}
                            /\ last' = [op |-> "RemoveVolume", res |-> "ok"]
  /\ round' = IF last'.res = "ok" /\ round.stage = "added" /\ round.v = v
              THEN [round EXCEPT !.stage = "removed"]
              ELSE NoRound
  /\ removed' = IF last'.res = "ok" /\ volumes.len > 0 THEN v ELSE 0
  /\ loadErr' = NilErr
  /\ idem' = NoIdem

\* the images of a set in the order of their IDs
RECURSIVE Sorted(_)
Sorted(S) ==
  IF S = {} THEN <<>>
  ELSE LET m == CHOOSE x \in S : \A y \in S : x <= y
       IN <<m>> \o Sorted(S \ {m})

\* The per-image snapshots the backend puts into a new group snapshot: one
\* per image of the group, listed in the order of the image IDs.  The
\* members in vg.volumes are in any order, so every relative order of
\* constituents and members occurs.
Constituents(members) ==
  [i \in 1..Cardinality(members) |->
     [name |-> NameOf(Sorted(members)[i]),
      snapID |-> SnapIDOf(Sorted(members)[i])]]

\* a types.Snapshot made by volume.NewSnapshotByID(ctx, cr, snapName, snapID)
\* with snapName = fmt.Sprintf("%s-snap-%d", group, i)
NewSnapshot(vol, snapID, i) == [src |-> vol, snapID |-> snapID, idx |-> i]

MatchesAny(volName, snapName) == TRUE

\* if volName != snap.Name { continue }
Matches(volName, snapName) == volName = snapName

\* The loops of CreateSnapshots over info.Snapshots (index i) and vg.volumes
\* (index j).  k counts the calls of volume.GetName and
\* volume.NewSnapshotByID made so far; the call number failK fails.
RECURSIVE Materialize(_, _, _, _, _, _, _)
Materialize(info, vols, i, j, acc, k, failK) ==
  IF i > Len(info) THEN [acc EXCEPT !.err = "nil"]
  ELSE IF j > Len(vols) THEN Materialize(info, vols, i + 1, 1, acc, k, failK)
  ELSE IF k + 1 = failK THEN [acc EXCEPT !.err = "volume.GetName"]
  ELSE IF ~Matches(NameOf(vols[j].id), info[i].name)
       THEN Materialize(info, vols, i, j + 1, acc, k + 1, failK)
  ELSE IF k + 2 = failK
       THEN \* snapshots[i], err = nil, err
            [acc EXCEPT !.err = "volume.NewSnapshotByID"]
  ELSE Materialize(info, vols, i + 1, 1,
                   [acc EXCEPT
                      !.snapshots[i] = NewSnapshot(vols[j], info[i].snapID, i),
                      !.made = @ + 1],
                   k + 2, failK)

\* snapshots := make([]types.Snapshot, len(info.Snapshots))
MakeSnapshots(info) ==
  [snapshots |-> [i \in 1..Len(info) |-> NilSnapshot], made |-> 0,
   err |-> "nil"]

\* the most calls the loops can make
MaxCallsOf(info, vols) == Len(info) * (Len(vols) + 1)

\* index of the first nil entry of the slice, 0 when there is none
FirstNil(snapshots) ==
  IF \E i \in 1..Len(snapshots) : snapshots[i] = NilSnapshot
  THEN CHOOSE i \in 1..Len(snapshots) :
         /\ snapshots[i] = NilSnapshot
         /\ \A l \in 1..(i - 1) : snapshots[l] # NilSnapshot
  ELSE 0

\* The deferred teardown: for _, snapshot := range snapshots
\* { snapshot.Destroy(ctx) }.  Destroy on a nil types.Snapshot is a nil
\* dereference: the goroutine panics and the rest of the slice is not visited.
Teardown(snapshots) ==
  IF FirstNil(snapshots) = 0
  THEN [panic |-> FALSE, destroyed |-> 1..Len(snapshots)]
  ELSE [panic |-> TRUE, destroyed |-> 1..(FirstNil(snapshots) - 1)]

RemovalDeferredLate(stage) ==
  stage \notin {"GroupSnapCreate", "GroupSnapGetInfo"}

\* the defer of librbd.GroupSnapRemove is registered once GroupSnapCreate
\* succeeded or failed with ErrExist; it also runs when the call panics
RemovalDeferred(stage) == stage # "GroupSnapCreate"

\* The exit of CreateSnapshots after the call ended at `stage`: when the
\* defer is registered, cleanupErr := librbd.GroupSnapRemove(ioctx, group,
\* name) runs once; its failure is logged and leaves the group snapshot
Exit(stage, snap, out) ==
  IF RemovalDeferred(stage)
  THEN \E ok \in BOOLEAN :
         /\ csOut' = [out EXCEPT !.stage = stage, !.removeTried = 1,
                                 !.removeOk = ok]
         /\ groupSnap' = IF ok THEN NoSnap ELSE snap
  ELSE /\ csOut' = [out EXCEPT !.stage = stage]
       /\ groupSnap' = snap

\* func (vg *volumeGroup) CreateSnapshots(ctx, cr, name)
CreateSnapshots ==
  /\ UNCHANGED <<cloneVars, reclaimVars>>
  /\ ops < MaxOps
  /\ ops' = ops + 1
  /\ phase = "live"
  /\ UNCHANGED <<object, released, groupExists, backendMembers, journal>>
  /\ \/ \* a call fails before the group snapshot is created or found
        Exit("GroupSnapCreate", groupSnap, [NoCS EXCEPT !.outcome = "error"])
     \/ \* librbd.GroupSnapCreate succeeds, or fails with ErrExist
        /\ groupExists
        /\ \E snap \in {IF groupSnap.exists THEN groupSnap
                        ELSE [exists |-> TRUE,
                              info |-> Constituents(backendMembers)]} :
             \/ \* librbd.GroupSnapGetInfo fails
                Exit("GroupSnapGetInfo", snap,
                     [NoCS EXCEPT !.outcome = "error", !.info = snap.info])
             \/ \E failK \in 0..MaxCallsOf(snap.info, Elems(heap, volumes)) :
                  LET run == Materialize(snap.info, Elems(heap, volumes), 1, 1,
                                         MakeSnapshots(snap.info), 0, failK)
                      down == Teardown(run.snapshots)
                  IN /\ failK # 0 => run.err # "nil"
                     /\ Exit(IF run.err = "nil" THEN "done" ELSE run.err,
                             snap,
                             [NoCS EXCEPT
                                !.outcome = IF run.err = "nil" THEN "ok"
                                            ELSE IF down.panic THEN "panic"
                                            ELSE "error",
                                !.info = snap.info,
                                !.snapshots = run.snapshots,
                                !.made = run.made,
                                !.destroyed = IF run.err = "nil" THEN {}
                                              ELSE down.destroyed])
  /\ last' = [op |-> "CreateSnapshots", res |-> csOut'.outcome]
  /\ round' = NoRound
  /\ removed' = 0
  /\ loadErr' = NilErr
  /\ idem' = NoIdem

GroupNext ==
  \/ GetVolumeGroup
  \/ Destroy
  \/ Create
  \/ Delete
  \/ \E v \in VolIDs : AddVolume(v)
  \/ \E v \in VolIDs : RemoveVolume(v)
  \/ CreateSnapshots

GroupSpec == GroupInit /\ [][GroupNext]_vars

(***************************************************************************)
(* Reclaim-space requests.  Each request slot runs one handler at a time;   *)
(* the handlers of different slots interleave step by step.                *)
(***************************************************************************)
ReclaimInit ==
  /\ CloneIdle
  /\ GroupIdle
  /\ groupExists = FALSE
  /\ backendMembers = {}
  /\ journal = {}
  /\ groupSnap = NoSnap
  /\ ReclaimIdle

Set(r, fields) ==
  requests' = [requests EXCEPT ![r] = [f \in DOMAIN @ |->
                 IF f \in DOMAIN fields THEN fields[f] ELSE @[f]]]

\* a client sends a ControllerReclaimSpace or a NodeReclaimSpace request
Call(r) ==
  /\ UNCHANGED <<cloneVars, groupVars>>
  /\ requests[r].pc \in {"idle", "done"}
  /\ issued < MaxRequests
  /\ issued' = issued + 1
  /\ \E srv \in {"Controller", "Node"}, id \in ReqIDs :
       requests' = [requests EXCEPT ![r] =
                      [NoRequest EXCEPT !.server = srv, !.id = id,
                                        !.pc = "GetVolumeId"]]
  /\ UNCHANGED volumeLocks

\* volumeID := req.GetVolumeId(); if volumeID == "" { return InvalidArgument }
GetVolumeId(r) ==
  /\ UNCHANGED <<cloneVars, groupVars>>
  /\ requests[r].pc = "GetVolumeId"
  /\ IF requests[r].id = 0
     THEN Set(r, [pc |-> "done", resp |-> "InvalidArgument"])
     ELSE Set(r, [pc |-> "TryAcquire"])
  /\ UNCHANGED <<volumeLocks, issued>>

\* VolumeLocks.TryAcquire(volumeID): false when the ID is in the table,
\* else the ID is put into the table
TryAcquireResult(locks, id) == id \notin locks

RefusedNever(acquired) == FALSE

\* if acquired := volumeLocks.TryAcquire(volumeID); !acquired { return ... }
Refused(acquired) == ~acquired

\* the lock step of both handlers, followed by the defer of Release
TryAcquire(r) ==
  /\ UNCHANGED <<cloneVars, groupVars>>
  /\ requests[r].pc = "TryAcquire"
  /\ LET acquired == TryAcquireResult(volumeLocks, requests[r].id)
     IN /\ volumeLocks' = volumeLocks \cup {requests[r].id}
        /\ IF Refused(acquired)
           THEN Set(r, [pc |-> "done", resp |-> "Aborted",
                        acquired |-> "no"])
           ELSE Set(r, [pc |-> IF requests[r].server = "Controller"
                               THEN "GetVolumeByID" ELSE "GetPath",
                        acquired |-> IF acquired THEN "yes" ELSE "no",
                        held |-> acquired])
  /\ UNCHANGED issued

LockReleasedOnSuccess(resp) == resp = "OK"

\* defer volumeLocks.Release(volumeID): runs on every return behind it
LockReleaseDeferred(resp) == TRUE

\* a return statement behind the defer of Release
Return(r, resp, fields) ==
  Set(r, [pc |-> IF LockReleaseDeferred(resp) THEN "Release" ELSE "done",
          resp |-> resp] @@ fields)

\* rbdVol, err := mgr.GetVolumeByID(ctx, volumeID)
GetVolumeByID(r) ==
  /\ UNCHANGED <<cloneVars, groupVars>>
  /\ requests[r].pc = "GetVolumeByID"
  /\ \/ Return(r, "Aborted", [did |-> requests[r].did])
     \/ Set(r, [pc |-> "Sparsify",
                did |-> requests[r].did \cup {"GetVolumeByID"}])
  /\ UNCHANGED <<volumeLocks, issued>>


\* The ways a call of rbdImage.Sparsify can go: what ri.isInUse() answers
\* and which of ri.open(), image.Stat() and image.Sparsify() fails.
SparsifyRuns ==
  {"isInUse fails", "in use", "open fails", "Stat fails", "Sparsify fails",
   "sparsified"}

\* func (ri *rbdImage) Sparsify(_ context.Context) error
Sparsify(run) ==
  CASE run = "isInUse fails" ->
         [err |-> Wrap("failed to check if image is in use", <<"isInUse">>),
          inUse |-> "unknown", did |-> {"isInUse"}]
    [] run = "in use" ->
         [err |-> ErrImageInUse, inUse |-> "yes", did |-> {"isInUse"}]
    [] run = "open fails" ->
         [err |-> <<"open">>, inUse |-> "no", did |-> {"isInUse", "open"}]
    [] run = "Stat fails" ->
         [err |-> <<"Stat">>, inUse |-> "no",
          did |-> {"isInUse", "open", "Stat", "Close"}]
    [] run = "Sparsify fails" ->
         [err |-> Wrap("failed to sparsify image", <<"rbd_sparsify">>),
          inUse |-> "no",
          did |-> {"isInUse", "open", "Stat", "Sparsify", "Close"}]
    [] OTHER ->
         [err |-> NilErr, inUse |-> "no",
          did |-> {"isInUse", "open", "Stat", "Sparsify", "Close"}]

InUseIsFailure(e) == FALSE

\* if errors.Is(err, rbdutil.ErrImageInUse): treat sparsify as no-op
InUseIsNoOp(e) == ErrorsIs(e, ErrImageInUse)

\* the response ControllerReclaimSpace makes of the error of Sparsify
ControllerResponse(e) ==
  IF InUseIsNoOp(e) THEN "OK"
  ELSE IF e # NilErr THEN "Internal"
  ELSE "OK"

\* err = rbdVol.Sparsify(ctx) and the returns behind it
SparsifyStep(r) ==
  /\ UNCHANGED <<cloneVars, groupVars>>
  /\ requests[r].pc = "Sparsify"
  /\ \E run \in SparsifyRuns :
       Return(r, ControllerResponse(Sparsify(run).err),
              [serr |-> Sparsify(run).err,
               inUse |-> Sparsify(run).inUse,
               did |-> requests[r].did \cup Sparsify(run).did])
  /\ UNCHANGED <<volumeLocks, issued>>

\* path := req.GetStagingTargetPath() ... req.GetVolumePath()
GetPath(r) ==
  /\ UNCHANGED <<cloneVars, groupVars>>
  /\ requests[r].pc = "GetPath"
  /\ \/ \* neither staging_target_path nor volume_path is set
        Return(r, "InvalidArgument", [did |-> requests[r].did])
     \/ Set(r, [pc |-> "IsBlockMultiNode"])
  /\ UNCHANGED <<volumeLocks, issued>>

\* isBlock, isMultiNode := csicommon.IsBlockMultiNode(...)
IsBlockMultiNode(r) ==
  /\ UNCHANGED <<cloneVars, groupVars>>
  /\ requests[r].pc = "IsBlockMultiNode"
  /\ \E isBlock, isMultiNode \in BOOLEAN :
       IF isMultiNode \/ isBlock
       THEN Return(r, "Unimplemented", [did |-> requests[r].did])
       ELSE Set(r, [pc |-> "ExecCommand"])
  /\ UNCHANGED <<volumeLocks, issued>>

\* _, stderr, err := util.ExecCommand(ctx, "fstrim", path)
ExecCommand(r) ==
  /\ UNCHANGED <<cloneVars, groupVars>>
  /\ requests[r].pc = "ExecCommand"
  /\ \E resp \in {"Internal", "OK"} :
       Return(r, resp, [did |-> requests[r].did \cup {"fstrim"}])
  /\ UNCHANGED <<volumeLocks, issued>>

\* the deferred volumeLocks.Release(volumeID)
ReleaseStep(r) ==
  /\ UNCHANGED <<cloneVars, groupVars>>
  /\ requests[r].pc = "Release"
  /\ volumeLocks' = volumeLocks \ {requests[r].id}
  /\ Set(r, [pc |-> "done", held |-> FALSE,
             released |-> requests[r].released + 1])
  /\ UNCHANGED issued

ReclaimNext ==
  \/ \E r \in Reqs : Call(r)
  \/ \E r \in Reqs : GetVolumeId(r)
  \/ \E r \in Reqs : TryAcquire(r)
  \/ \E r \in Reqs : GetVolumeByID(r)
  \/ \E r \in Reqs : SparsifyStep(r)
  \/ \E r \in Reqs : GetPath(r)
  \/ \E r \in Reqs : IsBlockMultiNode(r)
  \/ \E r \in Reqs : ExecCommand(r)
  \/ \E r \in Reqs : ReleaseStep(r)

ReclaimSpec == ReclaimInit /\ [][ReclaimNext]_vars

(***************************************************************************)
(* Properties of the clone orchestration                                   *)
(***************************************************************************)
Returned == pc = "done"

NonRetryable(e) == e # Nil /\ ~IsCloneRetryError(e)

\* the error came from the first backend step, before the defer statement
FirstStepFailed ==
  \/ kind = "Subvolume" /\ ret.kind = "ErrCreateSnapshot"
  \/ kind = "Snapshot" /\ ret.kind = "ErrCloneSnapshot"

\* C1 as stated: after every non-retryable error of CreateCloneFromSubvolume
\* neither the target volume nor the intermediate snapshot exists.
C1_AbsentAfterFailure ==
  (Returned /\ kind = "Subvolume" /\ NonRetryable(ret))
    => (cloneCount = 0 /\ snaps["VolID"] = 0)

\* C1 amended: when CreateCloneFromSubvolume returns a non-retryable error of a
\* step after the snapshot creation, the purge and the snapshot deletion were
\* both attempted; the target volume is absent if the purge succeeded and the
\* intermediate snapshot is absent if its deletion succeeded.
C1_AbsentAfterCompensation ==
  (Returned /\ kind = "Subvolume" /\ NonRetryable(ret) /\ ~FirstStepFailed)
    => /\ purgeRes # Unset
       /\ snapDelRes # Unset
       /\ (purgeRes = Nil => cloneCount = 0)
       /\ (snapDelRes = Nil => snaps["VolID"] = 0)

C1_Witness ==
  /\ Returned
  /\ kind = "Subvolume"
  /\ ret.kind = "ErrExpandVolume"
  /\ purgeRes = Nil
  /\ snapDelRes = Nil
  /\ cloneCount = 0
  /\ snaps["VolID"] = 0

\* how often the compensation ran in this invocation
Purges == Count(trace, "PurgeVolume")

CompSnapDeletes == Count(trace, "CompDeleteSnapshot")

\* C2 as stated: the compensation runs exactly once on a non-retryable error,
\* whichever step produced it, and not at all otherwise.
C2_CompensationOnce ==
  Returned =>
    IF NonRetryable(ret)
    THEN Purges = 1 /\ CompSnapDeletes = (IF kind = "Subvolume" THEN 1 ELSE 0)
    ELSE Purges = 0 /\ CompSnapDeletes = 0

\* C2 amended: the compensation runs exactly once when a step after the first
\* backend step (CreateSnapshot, resp. CloneSnapshot of the snapshot variant)
\* returned a non-retryable error, and does not run on success, on a retryable
\* error, or when the first backend step failed.
C2_CompensationOnceAfterFirstStep ==
  Returned =>
    IF NonRetryable(ret) /\ ~FirstStepFailed
    THEN Purges = 1 /\ CompSnapDeletes = (IF kind = "Subvolume" THEN 1 ELSE 0)
    ELSE Purges = 0 /\ CompSnapDeletes = 0

C2_Witness ==
  /\ Returned
  /\ kind = "Snapshot"
  /\ ret.kind = "ErrCloneFailed"
  /\ Purges = 1
  /\ CompSnapDeletes = 0

\* C3: a retryable outcome returns without purge or snapshot deletion, leaving
\* the target and the snapshot in place, and however often the operation is
\* re-invoked there is at most one snapshot per name and one target clone.
C3_RetryKeepsOneCloneOneSnapshot ==
  /\ cloneCount <= 1
  /\ \A n \in SnapNames : snaps[n] <= 1
  /\ (Returned /\ IsCloneRetryError(ret))
       => /\ Purges = 0
          /\ CompSnapDeletes = 0
          /\ Count(trace, "DeleteSnapshot") = 0
          /\ cloneCount = 1
          /\ snaps[SnapClientID] = 1

C3_Witness ==
  /\ Returned
  /\ calls >= 2
  /\ ret.kind = "ErrCloneInProgress"
  /\ cloneCount = 1
  /\ snaps[SnapClientID] = 1

\* C4: a successful clone leaves the target volume in place with the
\* requested size, whatever the size of the parent.
C4_SuccessHasRequestedSize ==
  (Returned /\ ret = Nil) => (cloneCount = 1 /\ volSize = reqSize)

C4_Witness ==
  /\ Returned
  /\ ret = Nil
  /\ cloneCount = 1
  /\ parentSize > reqSize
  /\ volSize = reqSize

\* C5: the returned error is the error of the step that failed, whatever the
\* purge and the snapshot deletion of the compensation returned, and a failed
\* purge is followed by the snapshot deletion.
C5_StepErrorReturned ==
  Returned =>
    /\ ret = stepErr
    /\ (kind = "Subvolume" /\ purgeRes \notin {Unset, Nil})
         => snapDelRes # Unset

C5_Witness ==
  /\ Returned
  /\ kind = "Subvolume"
  /\ ret.kind = "ErrExpandVolume"
  /\ purgeRes.kind = "ErrPurgeVolume"
  /\ snapDelRes = Nil

\* the classification of the clone states
Classify(c) ==
  CASE c.state = CloneComplete -> Nil
    [] c.state = CloneInProgress -> ErrOf("ErrCloneInProgress")
    [] c.state = ClonePending -> ErrOf("ErrClonePending")
    [] c.state = CloneFailed -> ErrWith("ErrCloneFailed", c.errorMsg, c.errno)
    [] OTHER -> ErrWith("ErrInvalidClone", c.errorMsg, c.errno)

\* C6: ToError is total: Complete is success, InProgress and Pending are
\* retryable, Failed is CloneFailed and every other state is InvalidClone; no
\* state other than Complete is classified as success.
C6_ClassificationTotal ==
  verdict # Unset => verdict = Classify(cs)

(***************************************************************************)
(* Properties of the volume group                                          *)
(***************************************************************************)
\* the entries of the snapshot slice that hold a snapshot object
Materialized == {i \in 1..Len(csOut.snapshots) : csOut.snapshots[i] # NilSnapshot}

\* C7: when a materialization (NewSnapshotByID) fails, the snapshots made
\* earlier in the call are torn down, the call returns the error (it neither
\* crashes nor succeeds) and the removal of the group snapshot still runs.
C7_MaterializationFailureRolledBack ==
  csOut.stage = "volume.NewSnapshotByID"
    => /\ csOut.outcome = "error"
       /\ Materialized \subseteq csOut.destroyed
       /\ csOut.removeTried = 1

\* the call got past the creation of the group snapshot
PastGroupSnapCreate == csOut.stage \notin {"none", "GroupSnapCreate"}

\* C8 as stated: once the group snapshot was created or found, it no longer
\* exists when CreateSnapshots ends, on every exit path.
C8_GroupSnapshotGone ==
  PastGroupSnapCreate => ~groupSnap.exists

\* C8 amended: once the group snapshot was created or found, its removal is
\* attempted exactly once before CreateSnapshots ends, on every exit path, and
\* the group snapshot no longer exists unless that removal failed.
C8_GroupSnapshotRemovalAttempted ==
  PastGroupSnapCreate
    => /\ csOut.removeTried = 1
       /\ (csOut.removeOk => ~groupSnap.exists)

C8_Witness ==
  /\ csOut.stage = "GroupSnapGetInfo"
  /\ csOut.removeTried = 1
  /\ csOut.removeOk
  /\ ~groupSnap.exists

\* the members whose image name is the name of constituent i
MembersNamed(i) ==
  {j \in 1..volumes.len :
     NameOf(Elems(heap, volumes)[j].id) = csOut.info[i].name}

\* C9: a successful CreateSnapshots holds, for each constituent whose image
\* name is the name of a member, exactly one snapshot made from such a member
\* with the constituent's snapshot ID, and none for the other constituents.
C9_OneSnapshotPerMatchedConstituent ==
  csOut.outcome = "ok"
    => /\ Len(csOut.snapshots) = Len(csOut.info)
       /\ csOut.made = Cardinality({i \in 1..Len(csOut.info) :
                                      MembersNamed(i) # {}})
       /\ \A i \in 1..Len(csOut.info) :
            IF MembersNamed(i) = {}
            THEN csOut.snapshots[i] = NilSnapshot
            ELSE /\ csOut.snapshots[i] # NilSnapshot
                 /\ NameOf(csOut.snapshots[i].src.id) = csOut.info[i].name
                 /\ \E j \in MembersNamed(i) :
                      csOut.snapshots[i].src = Elems(heap, volumes)[j]
                 /\ csOut.snapshots[i].snapID = csOut.info[i].snapID
                 /\ csOut.snapshots[i].idx = i

C9_Witness ==
  /\ csOut.outcome = "ok"
  /\ \E i \in 1..Len(csOut.info) : MembersNamed(i) = {}
  /\ \E i \in 1..Len(csOut.info) :
       MembersNamed(i) # {} /\ csOut.snapshots[i] # NilSnapshot

\* C10: Destroy releases each volume GetVolumeGroup resolved exactly once,
\* whatever AddVolume and RemoveVolume did to the membership and however often
\* Destroy is called, and never a volume that joined through AddVolume.
C10_DestroyReleasesResolvedOnce ==
  /\ phase = "live" => \A h \in Handles : released[h] = 0
  /\ phase = "destroyed"
       => \A h \in Handles : released[h] = (IF h \in resolved THEN 1 ELSE 0)

C10_Witness ==
  /\ phase = "destroyed"
  /\ destroyCalls = 2
  /\ \E h \in resolved : h \notin SeqToSet(Elems(heap, volumes))
  /\ \E h \in SeqToSet(Elems(heap, volumes)) : h.by = "caller"
  /\ \A h \in resolved : released[h] = 1

\* C11: when Load (GetVolumeGroup) fails, at whichever member the resolution
\* failed, it returns no group object and every volume resolved in the call
\* was released exactly once, and no other volume was released.
C11_LoadFailureReleasesResolved ==
  last = [op |-> "GetVolumeGroup", res |-> "error"]
    => /\ phase = "none"
       /\ volumes = NilSlice
       /\ \A h \in Handles : released[h] = (IF h \in resolved THEN 1 ELSE 0)

\* the resolution of the second of two members failed
C11_Witness ==
  /\ last = [op |-> "GetVolumeGroup", res |-> "error"]
  /\ Cardinality(journal) = 2
  /\ Cardinality(resolved) = 1
  /\ \A h \in resolved : released[h] = 1

\* C12: after a successful AddVolume(v) of a volume that was no member,
\* followed by a successful RemoveVolume(v), the IDs of the in-memory
\* membership are those before the AddVolume and the volume IDs of the
\* journal mapping are exactly the IDs of the in-memory membership.
C12_AddRemoveRestores ==
  round.stage = "removed"
    => /\ MemberIDs = round.before
       /\ journal = MemberIDs

\* C13: when RemoveVolume(v) returns success on a group whose in-memory
\* membership was not empty, v is no image of the backend group, no member in
\* memory and not in the journal mapping, also when the backend reported v
\* as already removed.
C13_RemovedEverywhere ==
  removed # 0
    => /\ removed \notin backendMembers
       /\ removed \notin MemberIDs
       /\ removed \notin journal

\* C14: Create on a group that exists in the backend returns success and
\* leaves backend group, journal and membership as they were; Delete on a
\* group that is absent from the backend returns success with the
\* membership record removed; the second, third, ... call of a run of such
\* calls returns the same and leaves the same state as the first.
C14_CreateDeleteIdempotent ==
  /\ idem.op = "Create"
       => /\ last = [op |-> "Create", res |-> "ok"]
          /\ GroupState = idem.pre
  /\ idem.op = "Delete"
       => /\ last = [op |-> "Delete", res |-> "ok"]
          /\ ~groupExists
          /\ backendMembers = {}
          /\ journal = {}
          /\ MemberIDs = idem.pre[5]

\* Create was repeated on an existing group with members
C14_Witness ==
  /\ idem.op = "Create"
  /\ idem.n >= 2
  /\ last = [op |-> "Create", res |-> "ok"]
  /\ backendMembers # {}
  /\ GroupState = idem.pre

\* Delete was repeated on an absent group
C14_WitnessDelete ==
  /\ idem.op = "Delete"
  /\ idem.n >= 2
  /\ last = [op |-> "Delete", res |-> "ok"]
  /\ journal = {}

\* C15: the in-memory membership never holds two volumes with the same ID,
\* whatever Load, AddVolume and RemoveVolume calls were made.
C15_MembersUniqueByID ==
  Cardinality(MemberIDs) = volumes.len

(***************************************************************************)
(* Properties of the reclaim-space servers                                 *)
(***************************************************************************)
\* the request is behind the lock acquisition and has not released yet
PastAcquisition(r) ==
  requests[r].pc \in {"GetVolumeByID", "Sparsify", "GetPath",
                      "IsBlockMultiNode", "ExecCommand", "Release"}

OneRequestPerID ==
  /\ \A r1, r2 \in Reqs :
       (r1 # r2 /\ PastAcquisition(r1) /\ PastAcquisition(r2))
         => requests[r1].id # requests[r2].id
  /\ \A r \in Reqs :
       requests[r].acquired = "no"
         => /\ requests[r].pc = "done"
            /\ requests[r].resp = "Aborted"
            /\ requests[r].did = {}

RefusedOnlyBySameID ==
  \A r \in Reqs :
    (requests[r].acquired = "untried" /\ requests'[r].acquired = "no")
      => \E r2 \in Reqs \ {r} :
           PastAcquisition(r2) /\ requests[r2].id = requests[r].id

\* C16: in every interleaving of requests sharing the lock table at most one
\* request per volume ID is behind the lock acquisition; a request that finds
\* its ID locked returns Aborted and has not resolved, sparsified or trimmed;
\* a request is refused only while another request for the same ID holds the
\* lock, so requests for different IDs do not exclude each other.
C16_MutualExclusionPerID ==
  []OneRequestPerID /\ [][RefusedOnlyBySameID]_vars

\* a request was refused while another request for the same ID held the lock
C16_Witness ==
  \E r1, r2 \in Reqs :
    /\ PastAcquisition(r1)
    /\ requests[r2].id = requests[r1].id
    /\ requests[r2].pc = "done"
    /\ requests[r2].acquired = "no"
    /\ requests[r2].resp = "Aborted"

\* C17: a request that acquired the lock has released it exactly once when it
\* has returned, whichever return it took, and a request that did not acquire
\* it has not released it; the lock table holds exactly the IDs of the
\* requests holding a lock, so a later request for the ID acquires it.
C17_LockReleasedOnEveryExit ==
  /\ volumeLocks = {requests[r].id : r \in {q \in Reqs : requests[q].held}}
  /\ \A r \in Reqs :
       /\ requests[r].held => PastAcquisition(r)
       /\ requests[r].pc = "done"
            => /\ ~requests[r].held
               /\ requests[r].released =
                    (IF requests[r].acquired = "yes" THEN 1 ELSE 0)

\* a request returned an error and released; a later one holds the same ID
C17_Witness ==
  \E r1, r2 \in Reqs :
    /\ requests[r1].pc = "done"
    /\ requests[r1].acquired = "yes"
    /\ requests[r1].resp \notin {"OK", "none"}
    /\ requests[r1].released = 1
    /\ requests[r2].id = requests[r1].id
    /\ requests[r2].held

\* C20: Sparsify on an image in use returns ErrImageInUse and has not opened,
\* read or sparsified the image, and ControllerReclaimSpace answers success
\* to it; every other error of Sparsify, the failed in-use check included,
\* is answered Internal.
C20_InUseIsNoOp ==
  \A r \in Reqs :
    requests[r].serr # <<"unset">>
      => /\ requests[r].inUse = "yes"
              => /\ requests[r].serr = ErrImageInUse
                 /\ requests[r].did \cap {"open", "Stat", "Sparsify"} = {}
                 /\ requests[r].resp = "OK"
         /\ (requests[r].inUse # "yes" /\ requests[r].serr # NilErr)
              => requests[r].resp = "Internal"
         /\ requests[r].serr = NilErr => requests[r].resp = "OK"

C20_Witness ==
  \E r \in Reqs :
    /\ requests[r].server = "Controller"
    /\ requests[r].pc = "done"
    /\ requests[r].inUse = "yes"
    /\ requests[r].serr = ErrImageInUse
    /\ requests[r].resp = "OK"
    /\ requests[r].released = 1

(***************************************************************************)
(* Cancellation of the clone operations                                    *)
(***************************************************************************)
\* the backend steps of the protocol proper
ProtocolSteps ==
  {"CreateSnapshot", "CloneSnapshot", "GetCloneState", "ExpandVolume",
   "DeleteSnapshot"}

\* position of the cancellation among the steps of the invocation, 0: none
CancelledAt ==
  IF Count(trace, "Cancel") = 0 THEN 0
  ELSE CHOOSE i \in 1..Len(trace) : trace[i] = "Cancel"

\* C18: once the context of CreateCloneFromSubvolume or
\* CreateCloneFromSnapshot is cancelled, no further backend step of the
\* protocol is started; when a step after the first had returned a
\* non-retryable error before the cancellation, the compensation still runs.
C18_CancelStopsProtocol ==
  CancelledAt # 0
    => /\ \A i \in (CancelledAt + 1)..Len(trace) : trace[i] \notin ProtocolSteps
       /\ (Returned /\ NonRetryable(ret) /\ ~FirstStepFailed) => Purges = 1

\* the snapshots in the backend before the first invocation
SnapsBefore ==
  [n \in SnapNames |-> IF n = "SnapshotID" /\ kind = "Snapshot" THEN 1 ELSE 0]

\* C19: CreateCloneFromSnapshot issues no snapshot creation and no snapshot
\* deletion, on the success, the retryable and the non-retryable path alike:
\* the snapshots in the backend stay what they were before the call, and its
\* compensation is the purge of the target volume alone.
C19_SourceSnapshotUntouched ==
  kind = "Snapshot"
    => /\ snaps = SnapsBefore
       /\ Count(trace, "CreateSnapshot") = 0
       /\ Count(trace, "DeleteSnapshot") = 0
       /\ CompSnapDeletes = 0

\* the compensation of CreateCloneFromSnapshot ran and purged the target
C19_Witness ==
  /\ kind = "Snapshot"
  /\ Returned
  /\ NonRetryable(ret)
  /\ Purges = 1
  /\ purgeRes = Nil
  /\ cloneCount = 0
  /\ snaps["SnapshotID"] = 1

(***************************************************************************)
(* Order of the backend steps of CreateCloneFromSubvolume                  *)
(***************************************************************************)
StepOrder ==
  <<"CreateSnapshot", "CloneSnapshot", "GetCloneState", "ExpandVolume",
    "DeleteSnapshot">>

\* the steps of the protocol proper among the steps of the invocation
RECURSIVE ProtocolOf(_)
ProtocolOf(t) ==
  IF t = <<>> THEN <<>>
  ELSE IF Head(t) \in ProtocolSteps THEN <<Head(t)>> \o ProtocolOf(Tail(t))
  ELSE ProtocolOf(Tail(t))

\* the steps were issued in the fixed order, each at most once
InStepOrder ==
  /\ Len(ProtocolOf(trace)) <= Len(StepOrder)
  /\ ProtocolOf(trace) = SubSeq(StepOrder, 1, Len(ProtocolOf(trace)))

\* a step is only reached with every earlier step having returned nil
EarlierStepsSucceeded ==
  pc \in {"CloneSnapshot", "GetCloneState", "ToError", "ExpandVolume",
          "DeleteSnapshot"} => err = Nil

\* C21: CreateCloneFromSubvolume issues create-snapshot, clone-snapshot,
\* state query, resize, delete-snapshot in this order, each at most once and
\* each only after the earlier ones succeeded, with one state query at most;
\* the resize is issued only when the query reported the clone Complete and
\* the snapshot deletion of the protocol only after the resize succeeded.
C21_FixedStepOrder ==
  kind = "Subvolume"
    => /\ InStepOrder
       /\ EarlierStepsSucceeded
       /\ Count(trace, "GetCloneState") <= 1
       /\ Count(trace, "ExpandVolume") > 0 => cs.state = CloneComplete
       /\ Count(trace, "DeleteSnapshot") > 0 => Count(trace, "ExpandVolume") = 1

\* C22: a Load that returns an error recognisable as not-found returns a
\* group object with no members and nothing to release, and has resolved no
\* volume; a Load of a group the backend lacks returns such an error unless
\* the initialization failed; a Load that returns any other error returns no
\* group object.
C22_LoadNotFoundReturnsEmptyGroup ==
  last.op = "GetVolumeGroup"
    => /\ ErrorsIs(loadErr, ErrRBDGroupNotFound)
            => /\ phase = "live"
               /\ volumes.len = 0
               /\ volumesToFree.len = 0
               /\ resolved = {}
               /\ \A h \in Handles : released[h] = 0
       /\ (loadErr # NilErr /\ ~ErrorsIs(loadErr, ErrRBDGroupNotFound))
            => phase = "none"
       /\ (loadErr = NilErr) = (last.res = "ok")
       /\ (~groupExists /\ loadErr # NilErr
             /\ loadErr[Len(loadErr)] \notin {"initCommonVolumeGroup",
                                             "getVolumeGroupAttributes"})
            => ErrorsIs(loadErr, ErrRBDGroupNotFound)

\* the journal still maps volumes to a group the backend lacks
C22_Witness ==
  /\ last = [op |-> "GetVolumeGroup", res |-> "notfound"]
  /\ ErrorsIs(loadErr, ErrRBDGroupNotFound)
  /\ ~groupExists
  /\ journal # {}
  /\ phase = "live"
  /\ volumes.len = 0
  /\ resolved = {}

\* an AddVolume or RemoveVolume call on a group whose in-memory member IDs
\* are the volume IDs of the journal mapping
MutationOfConsistentGroup ==
  /\ ops' = ops + 1
  /\ last'.op \in {"AddVolume", "RemoveVolume"}
  /\ MemberIDs = journal

\* C23: AddVolume and RemoveVolume, succeeding or failing at any step, keep
\* the in-memory member IDs equal to the volume IDs of the journal mapping,
\* and a call that returns an error leaves the in-memory membership as it
\* was before the call.
C23_MemoryMatchesJournal ==
  [][MutationOfConsistentGroup
       => /\ MemberIDs' = journal'
          /\ last'.res = "error" => MemberIDs' = MemberIDs]_vars

\* the errors of GetCloneState itself: s.conn.GetFSAdmin(), fsa.CloneStatus()
QueryErrors == {"ErrGetFSAdmin", "ErrCloneStatus"}

\* C24: when the clone state query itself fails, the call returns the query
\* error and treats it as non-retryable: the purge of the target volume is
\* run once, and in the subvolume variant the deletion of the intermediate
\* snapshot, whatever state the backend clone is in; a purge and a deletion
\* that succeed leave no target volume and no intermediate snapshot.
C24_QueryFailureCompensated ==
  (Returned /\ ret.kind \in QueryErrors)
    => /\ NonRetryable(ret)
       /\ ret = stepErr
       /\ Purges = 1
       /\ CompSnapDeletes = (IF kind = "Subvolume" THEN 1 ELSE 0)
       /\ purgeRes = Nil => cloneCount = 0
       /\ (kind = "Subvolume" /\ snapDelRes = Nil) => snaps["VolID"] = 0

\* the state query failed on the first invocation, the clone just started
C24_Witness ==
  /\ Returned
  /\ calls = 1
  /\ kind = "Subvolume"
  /\ ret.kind = "ErrCloneStatus"
  /\ Purges = 1
  /\ CompSnapDeletes = 1
  /\ purgeRes = Nil
  /\ cloneCount = 0
  /\ snaps["VolID"] = 0

\* CreateCloneFromSubvolume returned the error of the resize or of the
\* final deletion of the intermediate snapshot
LateFailure ==
  /\ Returned
  /\ kind = "Subvolume"
  /\ ret.kind \in {"ErrExpandVolume", "ErrDeleteSnapshot"}

\* C25 as stated: after a failure of the resize or of the final snapshot
\* deletion the completed target volume is purged, the snapshot deletion is
\* attempted again and the error is returned, so that no target volume is
\* left after a call that returned such an error.
C25_CompletedCloneNeverSurvives ==
  LateFailure
    => /\ ret = stepErr
       /\ Purges = 1
       /\ CompSnapDeletes = 1
       /\ cloneCount = 0

\* C25 amended: after a failure of the resize or of the final snapshot
\* deletion the purge of the target volume is run once, the snapshot
\* deletion is attempted again by the compensation and the error of the
\* step is returned; the target volume is gone when the purge succeeded.
C25_LateFailureCompensated ==
  LateFailure
    => /\ NonRetryable(ret)
       /\ ret = stepErr
       /\ Purges = 1
       /\ CompSnapDeletes = 1
       /\ purgeRes = Nil => cloneCount = 0

\* the final snapshot deletion failed and the compensation deleted it
C25_Witness ==
  /\ LateFailure
  /\ ret.kind = "ErrDeleteSnapshot"
  /\ Count(trace, "DeleteSnapshot") = 1
  /\ Purges = 1
  /\ CompSnapDeletes = 1
  /\ purgeRes = Nil
  /\ snapDelRes = Nil
  /\ cloneCount = 0
  /\ snaps["VolID"] = 0

====
